---- MODULE Spec2Model ----
(***************************************************************************)
(* Model of AuthService (src/src/service/authService.js): the identity     *)
(* service of the HoneyTouse back end.  The User Store (userDAO), the      *)
(* Verification Store (EmailVerification), the form validator, the token   *)
(* service and the mailer are collaborators the service calls.             *)
(***************************************************************************)
EXTENDS Integers, Sequences, FiniteSets, Bags, TLC

VARIABLES
  users,     \* the User Store: sequence of user documents, in insertion order
  nextId,    \* the next _id the User Store assigns
  pending,   \* bag of signUp calls suspended between findByEmail and create
  last,      \* the outcome of the service call that completed last
  verifs,    \* the Verification Store: sequence of {email, verificationCode}
  outbox     \* the mails the Mailer has accepted

vars == <<users, nextId, pending, last, verifs, outbox>>

(***************************************************************************)
(* Bounds of the model.                                                    *)
(***************************************************************************)
MaxUsers == 3      \* documents in the User Store plus signUp calls in flight
MaxVerifs == 3     \* documents in the Verification Store

(***************************************************************************)
(* Program constants.                                                      *)
(***************************************************************************)
MinPwLen == 8              \* "8~16자" in the password message
MaxPwLen == 16
SignUpCost == 15           \* bcrypt.hash(plainPassword, 15)
UpdateCost == 15           \* bcrypt.hash(password, 15)
ChangeCost == 10           \* bcrypt.hash(newPassword, 10)
CodeBase == 100000         \* Math.floor(100000 + Math.random() * 900000)
CodeSpan == 900000

(***************************************************************************)
(* Input values.                                                           *)
(***************************************************************************)
Emails == {"a@b.com", "admin@b.com"}
BadEmail == "not-an-email"
GoodName == "Kim Min"
BadName == "?"
GoodPhone == "010-1234-5678"
BadPhone == "12"
GoodPasswords == {"Abcd1234!", "Qwer5678@"}
BadPassword == "short1!"
NoPassword == ""           \* undefined or '': falsy in `if (password)`

\* JavaScript null for a document, and for an email field
Null == [isNull |-> TRUE]
NullEmail == "<null>"

Range(s) == {s[i] : i \in DOMAIN s}

(***************************************************************************)
(* formValidator: pure predicates over strings.                            *)
(***************************************************************************)
PwShape(p) ==
  CASE p = "Abcd1234!" -> [len |-> 9, letter |-> TRUE, digit |-> TRUE, special |-> TRUE]
    [] p = "Qwer5678@" -> [len |-> 9, letter |-> TRUE, digit |-> TRUE, special |-> TRUE]
    [] p = "short1!"   -> [len |-> 7, letter |-> TRUE, digit |-> TRUE, special |-> TRUE]
    [] OTHER           -> [len |-> 0, letter |-> FALSE, digit |-> FALSE, special |-> FALSE]

isValidName(name) == name = GoodName
isValidPhoneNumber(phone) == phone = GoodPhone
isValidEmail(email) == email \in Emails
isValidPassword(p) ==
  /\ PwShape(p).len >= MinPwLen
  /\ PwShape(p).len <= MaxPwLen
  /\ PwShape(p).letter /\ PwShape(p).digit /\ PwShape(p).special

(***************************************************************************)
(* bcrypt: a stored password is a value of the password column.  A hash is *)
(* a one-way image of the plaintext; the cost sets the work of computing   *)
(* it and no result of compare.  Plain(p) is the plaintext string itself   *)
(* put in that column.                                                     *)
(***************************************************************************)
Plain(p) == [kind |-> "plain", text |-> p]
bcryptHash(p, cost) == [kind |-> "bcrypt", text |-> p]
bcryptCompare(p, stored) == stored.kind = "bcrypt" /\ stored.text = p

(***************************************************************************)
(* AppError(name, description, httpCode) and a plain Error.                *)
(***************************************************************************)
AppError(kind, status) == [kind |-> kind, status |-> status]
PlainError == [kind |-> "Error", status |-> 0]
ReferenceError == [kind |-> "ReferenceError", status |-> 0]

(***************************************************************************)
(* TokenService: a token is signed from the id of the object handed in.    *)
(***************************************************************************)
generateAccessToken(user) == [kind |-> "access", id |-> user.id]
generateRefreshToken(user) == [kind |-> "refresh", id |-> user.id]

(***************************************************************************)
(* userDAO: the User Store.                                                *)
(***************************************************************************)
\* findByEmail: a matching document, or null.  With several matches the
\* store returns whichever it finds first: any of them.
findByEmail(us, email) ==
  LET m == {i \in DOMAIN us : us[i].email = email}
  IN  IF m = {} THEN {Null} ELSE {us[i] : i \in m}

findById(us, id) ==
  LET m == {i \in DOMAIN us : us[i].id = id}
  IN  IF m = {} THEN {Null} ELSE {us[i] : i \in m}

Merge(doc, fields) ==
  [k \in DOMAIN doc |-> IF k \in DOMAIN fields THEN fields[k] ELSE doc[k]]

updateById(us, id, fields) ==
  [i \in DOMAIN us |-> IF us[i].id = id THEN Merge(us[i], fields) ELSE us[i]]

create(us, id, fields) ==
  Append(us, Merge([id |-> id, name |-> "", phoneNumber |-> "", email |-> NullEmail,
                    password |-> Plain(""), address |-> "", addressDetail |-> "",
                    role |-> "user", profileImage |-> <<>>], fields))

\* the administrator account, created in the database directly
AdminUser ==
  [id |-> 1, name |-> GoodName, phoneNumber |-> GoodPhone, email |-> "admin@b.com",
   password |-> bcryptHash("Abcd1234!", SignUpCost), address |-> "Seoul",
   addressDetail |-> "101", role |-> "admin", profileImage |-> <<>>]

Init ==
  /\ users = <<AdminUser>>
  /\ nextId = 2
  /\ pending = EmptyBag
  /\ last = [op |-> "none"]
  /\ verifs = <<>>
  /\ outbox = {}

(***************************************************************************)
(* signUp                                                                  *)
(***************************************************************************)
\* the four format checks, in the order of the code: the field that fails
signUpValidateEmailFirst(name, phoneNumber, email, plainPassword) ==
  IF ~isValidName(name) THEN "name"
  ELSE IF ~isValidEmail(email) THEN "email"
  ELSE IF ~isValidPhoneNumber(phoneNumber) THEN "phoneNumber"
  ELSE IF ~isValidPassword(plainPassword) THEN "password"
  ELSE "ok"

signUpValidate(name, phoneNumber, email, plainPassword) ==
  IF ~isValidName(name) THEN "name"
  ELSE IF ~isValidPhoneNumber(phoneNumber) THEN "phoneNumber"
  ELSE IF ~isValidEmail(email) THEN "email"
  ELSE IF ~isValidPassword(plainPassword) THEN "password"
  ELSE "ok"

\* existingUser && existingUser.email !== null
signUpConflictNever(existingUser) == FALSE

signUpConflict(existingUser) ==
  existingUser # Null /\ existingUser.email # NullEmail

\* the document handed to userDAO.create
signUpNewUserPlain(req, hashedPassword) ==
  [name |-> req.name, phoneNumber |-> req.phoneNumber, email |-> req.email,
   password |-> Plain(req.plainPassword), address |-> req.address,
   addressDetail |-> req.addressDetail, role |-> "user"]

signUpNewUser(req, hashedPassword) ==
  [name |-> req.name, phoneNumber |-> req.phoneNumber, email |-> req.email,
   password |-> hashedPassword, address |-> req.address,
   addressDetail |-> req.addressDetail, role |-> "user"]

\* signUp up to the await of findByEmail: a format error, a conflict, or the
\* call goes on to hash and create
SignUpCheck(name, phoneNumber, email, plainPassword) ==
  LET v == signUpValidate(name, phoneNumber, email, plainPassword)
      req == [name |-> name, phoneNumber |-> phoneNumber, email |-> email,
              plainPassword |-> plainPassword, address |-> "Seoul",
              addressDetail |-> "101"]
  IN  IF v # "ok"
      THEN /\ last' = [op |-> "signUp", ok |-> FALSE, error |-> AppError("inputError", 400),
                       field |-> v, dao |-> <<>>]
           /\ UNCHANGED <<users, nextId, pending, verifs, outbox>>
      ELSE \E existingUser \in findByEmail(users, email) :
             IF signUpConflict(existingUser)
             THEN /\ last' = [op |-> "signUp", ok |-> FALSE,
                              error |-> AppError("conflictError", 409),
                              field |-> "email", dao |-> <<"findByEmail">>]
                  /\ UNCHANGED <<users, nextId, pending, verifs, outbox>>
             ELSE /\ Len(users) + BagCardinality(pending) < MaxUsers
                  /\ pending' = pending (+) SetToBag({req})
                  /\ UNCHANGED <<users, nextId, last, verifs, outbox>>

\* signUp from the return of findByEmail: hash, create, return the new user
SignUpCreate(req) ==
  /\ BagIn(req, pending)
  /\ LET hashedPassword == bcryptHash(req.plainPassword, SignUpCost)
     IN  /\ users' = create(users, nextId, signUpNewUser(req, hashedPassword))
         /\ last' = [op |-> "signUp", ok |-> TRUE, id |-> nextId,
                     plain |-> req.plainPassword,
                     dao |-> <<"findByEmail", "create">>]
  /\ nextId' = nextId + 1
  /\ pending' = pending (-) SetToBag({req})
  /\ UNCHANGED <<verifs, outbox>>

(***************************************************************************)
(* signIn                                                                  *)
(***************************************************************************)
SignInFaults == {"none", "lookup", "compare", "token"}

\* the body of the try block for the document findByEmail returned (user is
\* Null when the lookup threw); fault names the collaborator call that throws
signInTry(user, plainPassword, fault) ==
  IF fault = "lookup"
  THEN [ok |-> FALSE, error |-> PlainError]
  ELSE IF user = Null
  THEN [ok |-> FALSE, error |-> AppError("resourceNotFoundError", 404)]
  ELSE IF fault = "compare"
  THEN [ok |-> FALSE, error |-> PlainError]
  ELSE IF ~bcryptCompare(plainPassword, user.password)
  THEN [ok |-> FALSE, error |-> AppError("resourceNotFoundError", 400)]
  ELSE IF fault = "token"
  THEN [ok |-> FALSE, error |-> PlainError]
  ELSE [ok |-> TRUE, accessToken |-> generateAccessToken(user),
        refreshToken |-> generateRefreshToken(user)]

\* the catch block: every error of the try block becomes one 401
\* (signInCatchRethrow: a catch block that throws the error it caught)
signInCatchRethrow(tried) == tried

\* logged is the error logger.error records
signInCatch(tried) ==
  IF tried.ok THEN tried
  ELSE [ok |-> FALSE, error |-> AppError("authenticationError", 401),
        logged |-> tried.error]

SignIn(email, plainPassword, fault) ==
  /\ \E user \in (IF fault = "lookup" THEN {Null} ELSE findByEmail(users, email)) :
       LET res == signInCatch(signInTry(user, plainPassword, fault))
       IN  last' = [op |-> "signIn"] @@ res
  /\ UNCHANGED <<users, nextId, pending, verifs, outbox>>

(***************************************************************************)
(* updateProfile                                                           *)
(***************************************************************************)
\* the updatedUser object before the optional password; req is the object
\* the caller hands in
updatedUserKeepRole(user, req) ==
  [name |-> user.name, phoneNumber |-> user.phoneNumber, email |-> req.email,
   address |-> req.address, addressDetail |-> req.addressDetail, role |-> user.role]

updatedUserRoleFromRequest(user, req) ==
  [name |-> user.name, phoneNumber |-> user.phoneNumber, email |-> req.email,
   address |-> req.address, addressDetail |-> req.addressDetail, role |-> req.role]

updatedUserEmailMixup(user, req) ==
  [name |-> user.name, phoneNumber |-> user.phoneNumber, email |-> req.address,
   address |-> req.address, addressDetail |-> req.addressDetail, role |-> "user"]

updatedUser(user, req) ==
  [name |-> user.name, phoneNumber |-> user.phoneNumber, email |-> req.email,
   address |-> req.address, addressDetail |-> req.addressDetail, role |-> "user"]

\* updatedUser.password = hashedPassword
WithPassword(fields, stored) ==
  [k \in DOMAIN fields \cup {"password"} |->
     IF k = "password" THEN stored ELSE fields[k]]

\* the object handed to userDAO.updateById: the password is set only
\* inside `if (password)`
updateProfileFieldsAlwaysHash(user, req) ==
  WithPassword(updatedUser(user, req), bcryptHash(req.password, UpdateCost))

updateProfileFields(user, req) ==
  IF req.password # NoPassword
  THEN WithPassword(updatedUser(user, req), bcryptHash(req.password, UpdateCost))
  ELSE updatedUser(user, req)

\* role is a role value in the caller's object: the service destructures
\* {email, address, addressDetail, password} and never reads it
UpdateProfile(email, password, role) ==
  \E user \in findByEmail(users, email) :
    LET in == [op |-> "updateProfile"]
        req == [email |-> email, address |-> "Seoul", addressDetail |-> "101",
                password |-> password, role |-> role]
    IN  IF user = Null
        THEN /\ last' = in @@ [ok |-> FALSE,
                               error |-> AppError("resourceNotFoundError", 404)]
             /\ UNCHANGED <<users, nextId, pending, verifs, outbox>>
        ELSE IF email # user.email
        THEN /\ last' = in @@ [ok |-> FALSE, error |-> AppError("businessError", 400)]
             /\ UNCHANGED <<users, nextId, pending, verifs, outbox>>
        ELSE IF password # NoPassword /\ ~isValidPassword(password)
        THEN /\ last' = in @@ [ok |-> FALSE, error |-> AppError("inputError", 400)]
             /\ UNCHANGED <<users, nextId, pending, verifs, outbox>>
        ELSE /\ users' = updateById(users, user.id, updateProfileFields(user, req))
             /\ last' = in @@ [ok |-> TRUE, id |-> user.id, plain |-> password,
                               role |-> role]
             /\ UNCHANGED <<nextId, pending, verifs, outbox>>

(***************************************************************************)
(* changePassword                                                          *)
(***************************************************************************)
\* the two checks made before the User Store is touched
changePasswordRejectsFormatOnly(newPassword, newPasswordConfirm) ==
  ~isValidPassword(newPassword)

changePasswordRejects(newPassword, newPasswordConfirm) ==
  ~isValidPassword(newPassword) \/ newPassword # newPasswordConfirm

ChangePassword(email, newPassword, newPasswordConfirm) ==
  LET in == [op |-> "changePassword"]
  IN  IF changePasswordRejects(newPassword, newPasswordConfirm)
      THEN /\ last' = in @@ [ok |-> FALSE, id |-> 0, error |-> PlainError, dao |-> <<>>]
           /\ UNCHANGED <<users, nextId, pending, verifs, outbox>>
      ELSE \E user \in findByEmail(users, email) :
             IF user = Null
             THEN /\ last' = in @@ [ok |-> FALSE, id |-> 0, error |-> PlainError,
                                    dao |-> <<"findByEmail">>]
                  /\ UNCHANGED <<users, nextId, pending, verifs, outbox>>
             ELSE /\ users' = updateById(users, user.id,
                                [password |-> bcryptHash(newPassword, ChangeCost)])
                  /\ last' = in @@ [ok |-> TRUE, id |-> user.id, plain |-> newPassword,
                                    dao |-> <<"findByEmail", "updateById">>]
                  /\ UNCHANGED <<nextId, pending, verifs, outbox>>

(***************************************************************************)
(* uploadProfileImage                                                      *)
(***************************************************************************)
\* a path is its sequence of segments: the separator is the platform's
IsPrefixAt(p, pre, i) ==
  /\ i + Len(pre) <= Len(p)
  /\ \A j \in 1..Len(pre) : p[i + j - 1] = pre[j]

\* normalizedPath.replace(path.join('src', 'public') + path.sep, ''): the first
\* occurrence of src/public/ is cut out
stripPublic(p) ==
  LET pre == <<"src", "public">>
      at == {i \in 1..Len(p) : IsPrefixAt(p, pre, i)}
  IN  IF at = {} THEN p
      ELSE LET i == CHOOSE k \in at : \A m \in at : k <= m
           IN  SubSeq(p, 1, i - 1) \o SubSeq(p, i + Len(pre), Len(p))

UploadErrors == {"none", "LIMIT_FILE_SIZE", "other"}
UploadedPath == <<"src", "public", "images", "a.png">>

\* tokenId is the id jwt.verify decodes from the bearer token, 0 when the
\* token does not verify
UploadProfileImage(err, tokenId) ==
  LET in == [op |-> "uploadProfileImage"]
  IN  IF err = "LIMIT_FILE_SIZE"
      THEN /\ last' = in @@ [ok |-> FALSE, message |-> "File size limit exceeded."]
           /\ UNCHANGED <<users, nextId, pending, verifs, outbox>>
      ELSE IF err # "none"
      THEN /\ last' = in @@ [ok |-> FALSE, message |-> "Failed to upload profile image."]
           /\ UNCHANGED <<users, nextId, pending, verifs, outbox>>
      ELSE \E user \in (IF tokenId = 0 THEN {Null} ELSE findById(users, tokenId)) :
             IF user = Null
             THEN /\ last' = in @@ [ok |-> FALSE,
                                    message |-> "Failed to save profile image URL."]
                  /\ UNCHANGED <<users, nextId, pending, verifs, outbox>>
             ELSE /\ users' = updateById(users, tokenId,
                                [profileImage |-> stripPublic(UploadedPath)])
                  /\ last' = in @@ [ok |-> TRUE, imageUrl |-> stripPublic(UploadedPath)]
                  /\ UNCHANGED <<nextId, pending, verifs, outbox>>

(***************************************************************************)
(* getProfile                                                              *)
(***************************************************************************)
GetProfileFaults == {"none", "lookup", "image"}

\* the body of the try block for the document findById returned (user is Null
\* when the lookup threw); fault names the collaborator call that throws
getProfileTry(user, fault) ==
  IF fault = "lookup"
  THEN [ok |-> FALSE, error |-> PlainError]
  ELSE IF user = Null
  THEN [ok |-> FALSE, error |-> AppError("resourceNotFoundError", 404)]
  ELSE IF fault = "image"
  THEN [ok |-> FALSE, error |-> PlainError]
  ELSE [ok |-> TRUE, email |-> user.email, role |-> user.role]

\* the catch block encloses the whole body: the 404 thrown inside the try
\* block is caught with every other error; logged is what logger.error records
getProfileCatch(tried) ==
  IF tried.ok THEN tried
  ELSE [ok |-> FALSE, error |-> AppError("serverError", 500), logged |-> tried.error]

GetProfile(id, fault) ==
  /\ \E user \in (IF fault = "lookup" THEN {Null} ELSE findById(users, id)) :
       last' = [op |-> "getProfile"] @@ getProfileCatch(getProfileTry(user, fault))
  /\ UNCHANGED <<users, nextId, pending, verifs, outbox>>

(***************************************************************************)
(* refreshAccessToken                                                      *)
(***************************************************************************)
\* a refresh that first looks the caller's id up in the User Store
refreshAccessTokenLookup(us, id) ==
  IF Null \in findById(us, id)
  THEN [ok |-> FALSE, id |-> id, error |-> AppError("resourceNotFoundError", 404),
        dao |-> <<"findById">>]
  ELSE [ok |-> TRUE, id |-> id, accessToken |-> generateAccessToken([id |-> id]),
        dao |-> <<"findById">>]

\* us is the User Store at the call: the method signs { id } from req.userId
\* and calls no userDAO method
refreshAccessToken(us, id) ==
  [ok |-> TRUE, id |-> id, accessToken |-> generateAccessToken([id |-> id]),
   dao |-> <<>>]

RefreshAccessToken(id) ==
  /\ last' = [op |-> "refreshAccessToken"] @@ refreshAccessToken(users, id)
  /\ UNCHANGED <<users, nextId, pending, verifs, outbox>>

(***************************************************************************)
(* deleteProfile                                                           *)
(***************************************************************************)
\* `session` is bound nowhere in the module: evaluating the arguments of
\* userDAO.deleteByEmail(id, { session }) throws before the call is made
DeleteProfile(id) ==
  /\ \E user \in findById(users, id) :
       IF user = Null
       THEN last' = [op |-> "deleteProfile", ok |-> FALSE,
                     error |-> AppError("resourceNotFoundError", 404)]
       ELSE last' = [op |-> "deleteProfile", ok |-> FALSE, error |-> ReferenceError]
  /\ UNCHANGED <<users, nextId, pending, verifs, outbox>>

(***************************************************************************)
(* sendVerificationCode and verifyEmail                                    *)
(***************************************************************************)
\* Math.random() is a fraction num/den in [0, 1): the samples give the least
\* code, its successor and the greatest code
RandomSamples == {<<0, 900000>>, <<1, 900000>>, <<899999, 900000>>}

\* Math.floor(100000 + Math.random() * 900000)
generateVerificationCodeNoBase(r) ==
  r[1] * (CodeSpan \div r[2]) + ((r[1] * (CodeSpan % r[2])) \div r[2])

generateVerificationCode(r) ==
  CodeBase + r[1] * (CodeSpan \div r[2]) + ((r[1] * (CodeSpan % r[2])) \div r[2])

Codes == {generateVerificationCode(r) : r \in RandomSamples}
InputNumbers == Codes \cup {c + 1 : c \in Codes} \cup {c - 1 : c \in Codes}

\* EmailVerification.findOne({ email }): a matching document, or null.  No
\* order is asked for: with several matches the store returns whichever it
\* finds first, any of them.
findOne(vs, email) ==
  LET m == {i \in DOMAIN vs : vs[i].email = email}
  IN  IF m = {} THEN {Null} ELSE {vs[i] : i \in m}

\* the collaborator calls that complete, in the order the method awaits
\* them; mailFails: transporter.sendMail rejects and the method ends there
sendVerificationCodeCallsStoreFirst(mailFails) ==
  IF mailFails THEN <<"create">> ELSE <<"create", "sendMail">>

sendVerificationCodeCalls(mailFails) ==
  IF mailFails THEN <<>> ELSE <<"sendMail", "create">>

\* the write to the Verification Store: one new document per call
\* (storeVerificationUpsert: one document per email, replaced by each call)
storeVerificationUpsert(vs, toemail, verificationCode) ==
  Append(SelectSeq(vs, LAMBDA v : v.email # toemail),
         [email |-> toemail, verificationCode |-> verificationCode])

storeVerification(vs, toemail, verificationCode) ==
  Append(vs, [email |-> toemail, verificationCode |-> verificationCode])

SendVerificationCode(toemail, r, mailFails) ==
  LET verificationCode == generateVerificationCode(r)
      calls == sendVerificationCodeCalls(mailFails)
  IN  /\ "create" \in Range(calls) => Len(verifs) < MaxVerifs
      /\ outbox' = IF "sendMail" \in Range(calls)
                   THEN outbox \cup {[to |-> toemail, code |-> verificationCode]}
                   ELSE outbox
      /\ verifs' = IF "create" \in Range(calls)
                   THEN storeVerification(verifs, toemail, verificationCode)
                   ELSE verifs
      /\ last' = IF mailFails
                 THEN [op |-> "sendVerificationCode", ok |-> FALSE, error |-> PlainError,
                       email |-> toemail, calls |-> calls]
                 ELSE [op |-> "sendVerificationCode", ok |-> TRUE,
                       code |-> verificationCode, email |-> toemail, calls |-> calls]
      /\ UNCHANGED <<users, nextId, pending>>

\* the try block for the document findOne returned
verifyEmailTry(user, inputNumber) ==
  IF user = Null THEN FALSE               \* user.verificationCode throws
  ELSE inputNumber = user.verificationCode

VerifyEmail(inputNumber, email) ==
  /\ \E user \in findOne(verifs, email) :
       IF verifyEmailTry(user, inputNumber)
       THEN last' = [op |-> "verifyEmail", ok |-> TRUE, email |-> email,
                     inputNumber |-> inputNumber]
       ELSE last' = [op |-> "verifyEmail", ok |-> FALSE, email |-> email,
                     inputNumber |-> inputNumber, error |-> PlainError]
  /\ UNCHANGED <<users, nextId, pending, verifs, outbox>>

\* req.userId as the caller supplies it: ids the store has assigned or may
\* assign, and one it never assigns
RefreshIds == 1..(MaxUsers + 1)

Next ==
  \/ \E name \in {GoodName, BadName}, phoneNumber \in {GoodPhone, BadPhone},
        email \in Emails \cup {BadEmail},
        plainPassword \in GoodPasswords \cup {BadPassword} :
       SignUpCheck(name, phoneNumber, email, plainPassword)
  \/ \E req \in BagToSet(pending) : SignUpCreate(req)
  \/ \E email \in Emails, plainPassword \in GoodPasswords \cup {BadPassword},
        fault \in SignInFaults :
       SignIn(email, plainPassword, fault)
  \/ \E email \in Emails, password \in GoodPasswords \cup {BadPassword, NoPassword},
        role \in {"user", "admin"} :
       UpdateProfile(email, password, role)
  \/ \E email \in Emails, newPassword \in GoodPasswords \cup {BadPassword},
        newPasswordConfirm \in GoodPasswords :
       ChangePassword(email, newPassword, newPasswordConfirm)
  \/ \E err \in UploadErrors, tokenId \in 0..MaxUsers : UploadProfileImage(err, tokenId)
  \/ \E id \in 1..MaxUsers : DeleteProfile(id)
  \/ \E id \in 1..MaxUsers, fault \in GetProfileFaults : GetProfile(id, fault)
  \/ \E id \in RefreshIds : RefreshAccessToken(id)

Spec == Init /\ [][Next]_vars

\* registration on its own: signUp against a store whose records the
\* profile and password updates keep changing
NextRegister ==
  \/ \E name \in {GoodName, BadName}, phoneNumber \in {GoodPhone, BadPhone},
        email \in Emails \cup {BadEmail},
        plainPassword \in GoodPasswords \cup {BadPassword} :
       SignUpCheck(name, phoneNumber, email, plainPassword)
  \/ \E req \in BagToSet(pending) : SignUpCreate(req)
  \/ \E email \in Emails, password \in GoodPasswords \cup {BadPassword, NoPassword},
        role \in {"user", "admin"} :
       UpdateProfile(email, password, role)
  \/ \E email \in Emails, newPassword \in GoodPasswords \cup {BadPassword},
        newPasswordConfirm \in GoodPasswords :
       ChangePassword(email, newPassword, newPasswordConfirm)

SpecRegister == Init /\ [][NextRegister]_vars

\* the email-verification handshake on its own: it shares no state with the
\* operations on the User Store
NextMail ==
  \/ \E toemail \in Emails, r \in RandomSamples, mailFails \in BOOLEAN :
       SendVerificationCode(toemail, r, mailFails)
  \/ \E inputNumber \in InputNumbers, email \in Emails : VerifyEmail(inputNumber, email)

SpecMail == Init /\ [][NextMail]_vars

(***************************************************************************)
(* Properties of the User Store operations (checked under Spec).           *)
(***************************************************************************)
ById(id) == {u \in Range(users) : u.id = id}
\* C1: in every reachable state of the User Store no two records share an
\* email, also when the findByEmail and create steps of two signUp calls for
\* the same email interleave.
C1_OneUserPerEmail ==
  \A i, j \in DOMAIN users : users[i].email = users[j].email => i = j

\* C2: a signUp whose fields all pass validation and whose email is that of a
\* stored record (with a non-null email) fails with ConflictError (409),
\* whatever the other fields are, performs no create and leaves the User
\* Store unchanged.
C2_DuplicateEmailConflicts ==
  [][\A name \in {GoodName, BadName} : isValidName(name) =>
     \A phoneNumber \in {GoodPhone, BadPhone} : isValidPhoneNumber(phoneNumber) =>
     \A email \in Emails \cup {BadEmail} :
       (isValidEmail(email) /\ \E u \in Range(users) : u.email = email) =>
     \A plainPassword \in GoodPasswords \cup {BadPassword} :
       (isValidPassword(plainPassword)
          /\ SignUpCheck(name, phoneNumber, email, plainPassword))
       => /\ last'.op = "signUp" /\ last'.ok = FALSE
          /\ last'.error = AppError("conflictError", 409)
          /\ "create" \notin Range(last'.dao)
          /\ users' = users /\ pending' = pending /\ nextId' = nextId]_vars

C2_Witness ==
  /\ last.op = "signUp" /\ last.ok = FALSE
  /\ last.error.kind = "conflictError"
  /\ Len(users) >= 2

\* the earliest field, in the order name, phone, email, password, whose format
\* predicate fails; "none" when all pass
EarliestFailing(name, phoneNumber, email, plainPassword) ==
  LET order == <<"name", "phoneNumber", "email", "password">>
      fails == <<~isValidName(name), ~isValidPhoneNumber(phoneNumber),
                 ~isValidEmail(email), ~isValidPassword(plainPassword)>>
      bad == {k \in 1..4 : fails[k]}
  IN  IF bad = {} THEN "none"
      ELSE order[CHOOSE k \in bad : \A m \in bad : k <= m]

\* C3: signUp rejects with InputError (400) whenever one of name, phone,
\* email, password fails its format predicate; the field reported is the
\* earliest failing one in the order name, phone, email, password; the User
\* Store is then neither read nor written.
C3_EarliestInvalidFieldReported ==
  [][\A name \in {GoodName, BadName}, phoneNumber \in {GoodPhone, BadPhone},
        email \in Emails \cup {BadEmail},
        plainPassword \in GoodPasswords \cup {BadPassword} :
       ( /\ EarliestFailing(name, phoneNumber, email, plainPassword) # "none"
         /\ SignUpCheck(name, phoneNumber, email, plainPassword) )
       => /\ last'.op = "signUp" /\ last'.ok = FALSE
          /\ last'.error = AppError("inputError", 400)
          /\ last'.field = EarliestFailing(name, phoneNumber, email, plainPassword)
          /\ last'.dao = <<>>
          /\ users' = users /\ pending' = pending /\ nextId' = nextId]_vars

C3_Witness ==
  /\ last.op = "signUp" /\ last.ok = FALSE
  /\ last.error.kind = "inputError" /\ last.field = "phoneNumber"

\* C4: every failing signIn call (no user with that email, password mismatch,
\* an exception in lookup, compare or token issuance) surfaces as
\* AuthenticationError with status 401; no 404 or 400 escapes signIn.
C4_SignInFailsWith401 ==
  (last.op = "signIn" /\ ~last.ok)
  => /\ last.error.kind = "authenticationError"
     /\ last.error.status = 401

C4_Witness ==
  /\ last.op = "signIn" /\ ~last.ok
  /\ last.logged = AppError("resourceNotFoundError", 400)

\* C5: signIn(email, plainPassword), with no collaborator throwing, returns a
\* token pair if and only if a User with that email exists whose stored hash
\* plainPassword verifies against; both tokens carry that User's id.
C5_SignInIffCredentialsMatch ==
  [][\A email \in Emails, pw \in GoodPasswords \cup {BadPassword} :
       SignIn(email, pw, "none")
       => /\ last'.ok <=> \E u \in Range(users) :
                            u.email = email /\ bcryptCompare(pw, u.password)
          /\ last'.ok => \E u \in Range(users) :
                           /\ u.email = email /\ bcryptCompare(pw, u.password)
                           /\ last'.accessToken.id = u.id
                           /\ last'.refreshToken.id = u.id]_vars

\* C6: the password field of every User record is a hash and never a
\* plaintext; right after a successful signUp, updateProfile (with a
\* password) or changePassword the record written holds a hash that the
\* supplied plaintext verifies against.
C6_PasswordsStoredHashed ==
  /\ \A u \in Range(users) : u.password.kind = "bcrypt"
  /\ ( /\ last.op \in {"signUp", "updateProfile", "changePassword"}
       /\ last.ok /\ last.plain # NoPassword )
     => /\ ById(last.id) # {}
        /\ \A u \in ById(last.id) : /\ u.password # Plain(last.plain)
                                    /\ bcryptCompare(last.plain, u.password)

C6_Witness ==
  /\ last.op = "signUp" /\ last.ok
  /\ \E u \in ById(last.id) : bcryptCompare(last.plain, u.password)

\* C7: after every successful updateProfile the targeted User's stored role is
\* `user`, whatever role the record had and whatever role the caller supplies.
C7_UpdateForcesRoleUser ==
  (last.op = "updateProfile" /\ last.ok)
  => /\ ById(last.id) # {}
     /\ \A u \in ById(last.id) : u.role = "user"

C7_Witness ==
  /\ last.op = "updateProfile" /\ last.ok
  /\ last.id = AdminUser.id /\ last.role = "admin"

\* C8: a User's email is immutable: no step of signUp, updateProfile,
\* changePassword, uploadProfileImage or deleteProfile changes the email of a
\* record with a given id.
C8_EmailImmutable ==
  [][\A i \in DOMAIN users : \A j \in DOMAIN users' :
       users[i].id = users'[j].id => users[i].email = users'[j].email]_vars

C8_Witness ==
  /\ last.op = "updateProfile" /\ last.ok
  /\ last.id # AdminUser.id /\ last.plain # NoPassword

C11_DeleteRemovesExactlyOne ==
  [][\A id \in 1..MaxUsers :
       DeleteProfile(id)
       => IF ById(id) = {}
          THEN /\ last'.ok = FALSE
               /\ last'.error = AppError("resourceNotFoundError", 404)
               /\ users' = users
          ELSE /\ last'.ok = TRUE
               /\ users' = SelectSeq(users, LAMBDA u : u.id # id)]_vars

\* C12: a failing getProfile(id) reports ResourceNotFoundError (404) when the
\* failure is that no User has that id, and ServerError (500) only when the
\* failure is another internal one.
C12_GetProfileAbsentIs404 ==
  (last.op = "getProfile" /\ ~last.ok)
  => IF last.logged = AppError("resourceNotFoundError", 404)
     THEN last.error = AppError("resourceNotFoundError", 404)
     ELSE last.error = AppError("serverError", 500)

C14_RefreshIssuesForAnyId ==
  [][\A id \in RefreshIds :
       RefreshAccessToken(id)
       => /\ last'.op = "refreshAccessToken" /\ last'.ok
          /\ last'.accessToken = generateAccessToken([id |-> id])
          /\ last'.dao = <<>>
          /\ users' = users]_vars

C14_Witness ==
  /\ last.op = "refreshAccessToken" /\ last.ok
  /\ ById(last.id) = {}
  /\ last.accessToken.id = last.id

\* C15: no step gives a record the role admin: a record that is admin after a
\* step was admin, under the same id, before it, and a record a step creates
\* has the role user.
C15_AdminSetNeverGrows ==
  [][\A j \in DOMAIN users' :
       IF \E i \in DOMAIN users : users[i].id = users'[j].id
       THEN users'[j].role = "admin"
            => \E i \in DOMAIN users : /\ users[i].id = users'[j].id
                                       /\ users[i].role = "admin"
       ELSE users'[j].role = "user"]_vars

C15_Witness ==
  /\ last.op = "updateProfile" /\ last.ok
  /\ last.role = "admin" /\ last.id # AdminUser.id
  /\ \A u \in ById(last.id) : u.role = "user"

\* the passwords signIn(email, .) can accept in the current state
Accepted(email) ==
  {p \in GoodPasswords \cup {BadPassword} :
     \E user \in findByEmail(users, email) :
       signInCatch(signInTry(user, p, "none")).ok}

\* the passwords signIn(email, .) can refuse in the current state
Refused(email) ==
  {p \in GoodPasswords \cup {BadPassword} :
     \E user \in findByEmail(users, email) :
       ~signInCatch(signInTry(user, p, "none")).ok}

\* C17: updateProfile changes a stored hash only when a password is supplied
\* and valid.  With no password the hash, name and phoneNumber of every
\* record stay as they were, and so do the passwords signIn accepts; with
\* a password of invalid format the call fails, with InputError (400) when
\* the account exists, and the User Store is unchanged.
C17_UpdateHashOnlyWithValidPassword ==
  [][\A email \in Emails, password \in GoodPasswords \cup {BadPassword, NoPassword},
        role \in {"user", "admin"} :
       UpdateProfile(email, password, role)
       => /\ Len(users') = Len(users)
          /\ (\E i \in DOMAIN users : users'[i].password # users[i].password)
             => (password # NoPassword /\ isValidPassword(password))
          /\ password = NoPassword
             => \A i \in DOMAIN users : /\ users'[i].password = users[i].password
                                        /\ users'[i].name = users[i].name
                                        /\ users'[i].phoneNumber = users[i].phoneNumber
                /\ Accepted(email)' = Accepted(email)
          /\ (password # NoPassword /\ ~isValidPassword(password))
             => /\ last'.ok = FALSE
                /\ users' = users
                /\ (\E u \in Range(users) : u.email = email)
                   => last'.error = AppError("inputError", 400)]_vars

\* an updateProfile with a password of invalid format has been refused for a
\* registered account
C17_Witness ==
  /\ last.op = "updateProfile" /\ ~last.ok
  /\ last.error = AppError("inputError", 400)
  /\ Len(users) >= 2

\* C19: from a successful changePassword(email, p, p) until the next call that
\* writes a password, signIn(email, p) succeeds and signIn(email, q) fails for
\* every q other than p; a changePassword that fails leaves the User Store,
\* and so the passwords signIn accepts, as they were.
C19_ChangedPasswordIsTheOneAccepted ==
  /\ [](( last.op = "changePassword" /\ last.ok )
        => \A u \in ById(last.id) :
             /\ last.plain \notin Refused(u.email)
             /\ Accepted(u.email) \subseteq {last.plain})
  /\ [][(last'.op = "changePassword" /\ ~last'.ok) => users' = users]_vars

(***************************************************************************)
(* Properties of the email-verification handshake (checked under SpecMail).*)
(***************************************************************************)
Stored(email) == {i \in DOMAIN verifs : verifs[i].email = email}
LatestCode(email) ==
  verifs[CHOOSE i \in Stored(email) : \A k \in Stored(email) : k <= i].verificationCode

\* C10: verifyEmail(inputNumber, email) succeeds if and only if inputNumber
\* equals the code of the most recently stored Verification record for that
\* email: after two or more sendVerificationCode calls only the latest code
\* succeeds, and older codes, code+1 and code-1 fail.
C10_OnlyLatestCodeVerifies ==
  last.op = "verifyEmail"
  => (last.ok <=> /\ Stored(last.email) # {}
                  /\ last.inputNumber = LatestCode(last.email))

\* C16: the Verification Store is append-only: a successful
\* sendVerificationCode adds exactly one record and keeps every earlier
\* record, also those for the same email; verifyEmail changes nothing; and a
\* pair (email, code) that has verified verifies again against the record
\* that made it succeed, which is still stored.
C16_VerificationsAppendOnly ==
  /\ [][ /\ Len(verifs') >= Len(verifs)
         /\ SubSeq(verifs', 1, Len(verifs)) = verifs
         /\ (last'.op = "sendVerificationCode" /\ last'.ok)
            => /\ Len(verifs') = Len(verifs) + 1
               /\ verifs'[Len(verifs')] = [email |-> last'.email,
                                           verificationCode |-> last'.code]
         /\ last'.op = "verifyEmail" => verifs' = verifs ]_vars
  /\ []( (last.op = "verifyEmail" /\ last.ok)
         => \E rec \in findOne(verifs, last.email) :
              verifyEmailTry(rec, last.inputNumber) )

\* a second code has been stored for an email that already had one
C16_Witness ==
  /\ last.op = "sendVerificationCode" /\ last.ok
  /\ Cardinality(Stored(last.email)) >= 2

\* C18: the code a successful sendVerificationCode returns is an integer in
\* [100000, 999999], and that same value is the one handed to the Mailer and
\* the one persisted.
C18_CodeSixDigitsAndShared ==
  (last.op = "sendVerificationCode" /\ last.ok)
  => /\ last.code \in CodeBase..(CodeBase + CodeSpan - 1)
     /\ [to |-> last.email, code |-> last.code] \in outbox
     /\ Len(verifs) >= 1
     /\ verifs[Len(verifs)] = [email |-> last.email, verificationCode |-> last.code]

\* the greatest code has been returned
C18_Witness ==
  /\ last.op = "sendVerificationCode" /\ last.ok
  /\ last.code = CodeBase + CodeSpan - 1
  /\ [to |-> last.email, code |-> last.code] \in outbox

\* the position of a call in the calls of the last sendVerificationCode
CallAt(name) == {k \in DOMAIN last.calls : last.calls[k] = name}

\* C20: within sendVerificationCode the Mailer send comes before the write to
\* the Verification Store; when the Mailer throws no record is created; so
\* every persisted code has been handed to the Mailer.
C20_MailBeforeStore ==
  /\ []( /\ \A v \in Range(verifs) :
              [to |-> v.email, code |-> v.verificationCode] \in outbox
         /\ last.op = "sendVerificationCode"
            => /\ \A c \in CallAt("create") : \E m \in CallAt("sendMail") : m < c
               /\ ~last.ok => CallAt("create") = {} )
  /\ [][(last'.op = "sendVerificationCode" /\ ~last'.ok) => verifs' = verifs]_vars

\* the Mailer has refused a send while the store holds earlier records
C20_Witness ==
  /\ last.op = "sendVerificationCode" /\ ~last.ok
  /\ Len(verifs) >= 1
  /\ CallAt("create") = {}

====
